---- MODULE Spec2Model ----
(***************************************************************************)
(* Model of the ngscopeclient measurement stream registry                  *)
(* (MeasurementsDialog: m_streams / m_streamset with channel reference     *)
(* counting) and of the waveform acquisition thread (WaveformThread) with  *)
(* its ready / processed event handshake.                                  *)
(***************************************************************************)
EXTENDS Integers, Sequences, FiniteSets, TLC

(***************************************************************************)
(* Bounds of the model.                                                    *)
(***************************************************************************)
\* longest m_streams the model lets AddStream / the move handler build
MaxStreams == 3
\* number of registry operations in one behaviour
MaxOps == 5
\* number of waveforms the acquisition thread downloads in one behaviour
MaxCycles == 2
\* number of poll results the model keeps an exact log of
MaxPolls == 4
\* number of Signal() calls on the stand-alone event in one behaviour
MaxSignals == 4
\* number of Block() calls on the stand-alone event in one behaviour
MaxBlocks == 3

(***************************************************************************)
(* Channels and stream descriptors.                                        *)
(***************************************************************************)
\* channels for which dynamic_cast<OscilloscopeChannel*> succeeds
OscChannels == {"A", "B"}
\* channels for which the dynamic_cast yields a null pointer
OtherChannels == {"N"}
Channels == OscChannels \cup OtherChannels
\* the null pointer
NULL == "null"
StreamIndices == {0, 1}

\* StreamDescriptor(channel, stream): a (channel, output index) pair
SD(c, s) == [m_channel |-> c, m_stream |-> s]

\* the descriptors the UI can deliver to the dialog
Descriptors == {SD("A", 0), SD("A", 1), SD("B", 0), SD("N", 0)}

\* dynamic_cast<OscilloscopeChannel*>(channel)
DynCastOsc(c) == IF c \in OscChannels THEN c ELSE NULL

\* the implicit conversion OscilloscopeChannel* -> StreamDescriptor used when
\* a bare channel pointer is passed where a descriptor is expected: the
\* stream index takes its default value 0
FromChannel(ochan) == SD(ochan, 0)

VARIABLES
    m_streams,      \* std::vector<StreamDescriptor>, display order
    m_streamset,    \* std::set<StreamDescriptor>, dedup set
    refs,           \* per channel: references the dialog holds (AddRef - Release)
    addRefCalls,    \* per channel: AddRef() calls issued by the dialog
    releaseCalls,   \* per channel: Release() calls issued by the dialog
    addOps,         \* per channel: AddStream calls that were not no-ops
    removeOps,      \* per channel: RemoveStream calls on a valid index
    alive,          \* FALSE once the destructor has run
    nops,           \* registry operations so far
    last,           \* the last registry operation and the state it started from
    pc,             \* WaveformThread: position in the loop
    shuttingDown,   \* atomic<bool> *shuttingDown
    g_waveformReadyEvent,       \* TRUE when signaled
    g_waveformProcessedEvent,   \* TRUE when signaled
    cpc,            \* consumer: "idle" or "reading"
    cycles,         \* downloads started so far
    shutdownAt,     \* pc at which the shutdown flag was set, "none" before
    teardownSignal, \* TRUE once teardown has signaled "processed" one last time
    polls,          \* results of CheckForPendingWaveforms, oldest first
    exact,          \* TRUE while polls holds every poll made so far
    nSleeps,        \* sleep_for calls completed (counted while exact)
    nDownloads,     \* DownloadWaveforms calls that returned
    nReady,         \* g_waveformReadyEvent.Signal() calls
    nBlocks,        \* g_waveformProcessedEvent.Block() calls that returned
    cProcessed,     \* "processed" signals sent by the consumer
    ev,             \* a stand-alone Event: TRUE when signaled
    wpc,            \* its waiter: "run" or "blocked" (inside Block())
    sigSince,       \* Signal() calls since the last Block() returned
    sigAtCall,      \* Signal() calls pending when the current Block() was issued
    lastBurst,      \* Signal() calls the last returned Block() consumed
    evSignals,      \* Signal() calls so far
    evBlocks        \* Block() calls so far

regVars == <<m_streams, m_streamset, refs, addRefCalls, releaseCalls,
             addOps, removeOps, alive, nops, last>>
thrVars == <<pc, shuttingDown, g_waveformReadyEvent, g_waveformProcessedEvent,
             cpc, cycles, shutdownAt, teardownSignal,
             polls, exact, nSleeps, nDownloads, nReady, nBlocks, cProcessed>>
evVars == <<ev, wpc, sigSince, sigAtCall, lastBurst, evSignals, evBlocks>>
vars == <<m_streams, m_streamset, refs, addRefCalls, releaseCalls,
          addOps, removeOps, alive, nops, last,
          pc, shuttingDown, g_waveformReadyEvent, g_waveformProcessedEvent,
          cpc, cycles, shutdownAt, teardownSignal,
          polls, exact, nSleeps, nDownloads, nReady, nBlocks, cProcessed,
          ev, wpc, sigSince, sigAtCall, lastBurst, evSignals, evBlocks>>

(***************************************************************************)
(* Helpers on sequences.                                                   *)
(***************************************************************************)
\* std::vector::erase(begin() + i), i zero based
EraseAt(s, i) == SubSeq(s, 1, i) \o SubSeq(s, i + 2, Len(s))

\* std::vector::insert(begin() + i, x), i zero based
InsertAt(s, i, x) == SubSeq(s, 1, i) \o <<x>> \o SubSeq(s, i + 1, Len(s))

\* zero based indexes of s holding x
IndexesOf(s, x) == {i \in 0..(Len(s) - 1) : s[i + 1] = x}

\* the set of elements of s
Range(s) == {s[i] : i \in 1..Len(s)}

\* number of entries of s whose channel is c
CountChannel(s, c) == Cardinality({i \in 1..Len(s) : s[i].m_channel = c})

RECURSIVE ChannelsOf(_)
\* the OscilloscopeChannels of the entries of s, one per entry, in order
ChannelsOf(s) ==
    IF s = <<>> THEN <<>>
    ELSE LET o == DynCastOsc(Head(s).m_channel)
         IN  (IF o = NULL THEN <<>> ELSE <<o>>) \o ChannelsOf(Tail(s))

\* number of entries of the sequence of channels cs equal to c
Occurrences(cs, c) == Cardinality({i \in 1..Len(cs) : cs[i] = c})

Zero == [c \in Channels |-> 0]

\* ochan->AddRef() / ochan->Release() guarded by if(ochan)
Bump(f, ochan) == IF ochan = NULL THEN f ELSE [f EXCEPT ![ochan] = @ + 1]
Drop(f, ochan) == IF ochan = NULL THEN f ELSE [f EXCEPT ![ochan] = @ - 1]

\* what an operation's record keeps of the operation before it
Brief(r) == [op |-> r.op, d |-> r.d, present |-> r.present,
             streams |-> r.streams, refs |-> r.refs]

NoOp == [op |-> "none", d |-> SD(NULL, 0), pos |-> 0, present |-> FALSE,
         result |-> "void", streams |-> <<>>, set |-> {}, refs |-> Zero,
         before |-> [op |-> "none", d |-> SD(NULL, 0), present |-> FALSE,
                     streams |-> <<>>, refs |-> Zero]]

\* the record kept of an operation: its arguments, whether the descriptor was
\* found (AddStream: in m_streamset, move: in m_streams), what it returned
\* (all of them are void functions), the state it started from and the
\* operation before it
Record(op, d, pos, present) ==
    [op |-> op, d |-> d, pos |-> pos, present |-> present, result |-> "void",
     streams |-> m_streams, set |-> m_streamset, refs |-> refs,
     before |-> Brief(last)]

(***************************************************************************)
(* MeasurementsDialog                                                      *)
(***************************************************************************)
\* bool HasStream(StreamDescriptor stream): membership in m_streamset
HasStream(stream) == stream \in m_streamset

RegInit ==
    /\ m_streams = <<>>
    /\ m_streamset = {}
    /\ refs = Zero
    /\ addRefCalls = Zero
    /\ releaseCalls = Zero
    /\ addOps = Zero
    /\ removeOps = Zero
    /\ alive = TRUE
    /\ nops = 0
    /\ last = NoOp

\* AddStream without the duplicate check
AddStreamNoDedup(stream) ==
    /\ alive
    /\ nops < MaxOps
    /\ nops' = nops + 1
    /\ Len(m_streams) < MaxStreams
    /\ last' = Record("Add", stream, Len(m_streams), HasStream(stream))
    /\ m_streams' = Append(m_streams, stream)
    /\ m_streamset' = m_streamset \cup {stream}
    /\ refs' = Bump(refs, DynCastOsc(stream.m_channel))
    /\ addRefCalls' = Bump(addRefCalls, DynCastOsc(stream.m_channel))
    /\ addOps' = [addOps EXCEPT ![stream.m_channel] = @ + 1]
    /\ UNCHANGED <<releaseCalls, removeOps, alive>>

\* void MeasurementsDialog::AddStream(StreamDescriptor stream)
AddStream(stream) ==
    /\ alive
    /\ nops < MaxOps
    /\ nops' = nops + 1
    /\ IF HasStream(stream)
       THEN /\ last' = Record("Add", stream, Len(m_streams), TRUE)
            /\ UNCHANGED <<m_streams, m_streamset, refs, addRefCalls, addOps>>
       ELSE /\ Len(m_streams) < MaxStreams
            /\ last' = Record("Add", stream, Len(m_streams), FALSE)
            /\ m_streams' = Append(m_streams, stream)
            /\ m_streamset' = m_streamset \cup {stream}
            /\ refs' = Bump(refs, DynCastOsc(stream.m_channel))
            /\ addRefCalls' = Bump(addRefCalls, DynCastOsc(stream.m_channel))
            /\ addOps' = [addOps EXCEPT ![stream.m_channel] = @ + 1]
    /\ UNCHANGED <<releaseCalls, removeOps, alive>>

\* RemoveStream that forgets to release the channel
RemoveStreamNoRelease(i) ==
    /\ alive
    /\ nops < MaxOps
    /\ i \in 0..(Len(m_streams) - 1)
    /\ LET ochan == DynCastOsc(m_streams[i + 1].m_channel)
       IN  /\ m_streamset' = m_streamset \ {FromChannel(ochan)}
           /\ removeOps' = [removeOps EXCEPT ![m_streams[i + 1].m_channel] = @ + 1]
    /\ m_streams' = EraseAt(m_streams, i)
    /\ last' = Record("Remove", m_streams[i + 1], i, FALSE)
    /\ nops' = nops + 1
    /\ UNCHANGED <<refs, releaseCalls, addRefCalls, addOps, alive>>

\* void MeasurementsDialog::RemoveStream(size_t i), i a valid index
RemoveStream(i) ==
    /\ alive
    /\ nops < MaxOps
    /\ i \in 0..(Len(m_streams) - 1)
    /\ LET ochan == DynCastOsc(m_streams[i + 1].m_channel)
       IN  /\ m_streamset' = m_streamset \ {FromChannel(ochan)}
           /\ refs' = Drop(refs, ochan)
           /\ releaseCalls' = Bump(releaseCalls, ochan)
           /\ removeOps' = [removeOps EXCEPT ![m_streams[i + 1].m_channel] = @ + 1]
    /\ m_streams' = EraseAt(m_streams, i)
    /\ last' = Record("Remove", m_streams[i + 1], i, FALSE)
    /\ nops' = nops + 1
    /\ UNCHANGED <<addRefCalls, addOps, alive>>

\* a move handler that does not remove the old entry
MoveStreamKeepsOld(moveStream, moveDest) ==
    /\ alive
    /\ nops < MaxOps
    /\ moveDest \in 0..(Len(m_streams) - 1)
    /\ Len(m_streams) < MaxStreams
    /\ m_streams' = InsertAt(m_streams, moveDest, moveStream)
    /\ last' = Record("Move", moveStream, moveDest,
                      IndexesOf(m_streams, moveStream) # {})
    /\ m_streamset' = m_streamset \cup {moveStream}
    /\ nops' = nops + 1
    /\ UNCHANGED <<refs, addRefCalls, releaseCalls, addOps, removeOps, alive>>

\* a move handler that also takes a drop below the last row, with an index
\* one past the rows
MoveStreamPastEnd(moveStream, moveDest) ==
    /\ alive
    /\ nops < MaxOps
    /\ m_streams # <<>>
    /\ moveDest \in 0..Len(m_streams)
    /\ LET found == IndexesOf(m_streams, moveStream)
           removed == IF found = {} THEN m_streams
                      ELSE EraseAt(m_streams, CHOOSE i \in found : \A j \in found : i <= j)
       IN  /\ Len(removed) < MaxStreams
           /\ m_streams' = IF moveDest <= Len(removed)
                           THEN InsertAt(removed, moveDest, moveStream)
                           ELSE Append(removed, moveStream)
           /\ last' = Record("Move", moveStream, moveDest, found # {})
    /\ m_streamset' = m_streamset \cup {moveStream}
    /\ nops' = nops + 1
    /\ UNCHANGED <<refs, addRefCalls, releaseCalls, addOps, removeOps, alive>>

\* DoRender, "Handle moves": a "Scalar" payload moveStream dropped on row moveDest
MoveStream(moveStream, moveDest) ==
    /\ alive
    /\ nops < MaxOps
    /\ moveDest \in 0..(Len(m_streams) - 1)
    /\ LET found == IndexesOf(m_streams, moveStream)
           removed == IF found = {} THEN m_streams
                      ELSE EraseAt(m_streams, CHOOSE i \in found : \A j \in found : i <= j)
       IN  /\ Len(removed) < MaxStreams
           /\ m_streams' = InsertAt(removed, moveDest, moveStream)
           /\ last' = Record("Move", moveStream, moveDest, found # {})
    /\ m_streamset' = m_streamset \cup {moveStream}
    /\ nops' = nops + 1
    /\ UNCHANGED <<refs, addRefCalls, releaseCalls, addOps, removeOps, alive>>

\* MeasurementsDialog::~MeasurementsDialog()
Destructor ==
    /\ alive
    /\ LET cs == ChannelsOf(m_streams)
       IN  /\ refs' = [c \in Channels |-> refs[c] - Occurrences(cs, c)]
           /\ releaseCalls' = [c \in Channels |-> releaseCalls[c] + Occurrences(cs, c)]
    /\ m_streams' = <<>>
    /\ alive' = FALSE
    /\ last' = Record("Teardown", SD(NULL, 0), 0, FALSE)
    /\ UNCHANGED <<m_streamset, addRefCalls, addOps, removeOps, nops>>

\* what reading m_streams[i] past the end can yield as a channel pointer
GarbageChannels == OscChannels \cup {NULL}
\* what std::vector::erase past the end can do
EraseOutcomes == {"crash", "unchanged", "droplast"}

\* void MeasurementsDialog::RemoveStream(size_t i), i not a valid index: there
\* is no bounds check, m_streams[i] and erase(begin() + i) are undefined
RemoveStreamOutOfRange(i, garbage, outcome) ==
    /\ alive
    /\ nops < MaxOps
    /\ i >= Len(m_streams)
    /\ last' = Record("Remove", SD(garbage, 0), i, FALSE)
    /\ nops' = nops + 1
    /\ IF outcome = "crash"
       THEN /\ alive' = FALSE
            /\ UNCHANGED <<m_streams, m_streamset, refs, releaseCalls>>
       ELSE /\ m_streamset' = m_streamset \ {FromChannel(garbage)}
            /\ refs' = Drop(refs, garbage)
            /\ releaseCalls' = Bump(releaseCalls, garbage)
            /\ m_streams' = IF outcome = "droplast" /\ m_streams # <<>>
                            THEN SubSeq(m_streams, 1, Len(m_streams) - 1)
                            ELSE m_streams
            /\ UNCHANGED alive
    /\ UNCHANGED <<addRefCalls, addOps, removeOps>>

(***************************************************************************)
(* Event: a binary, auto-resetting signal.                                 *)
(***************************************************************************)
\* Event::Signal(): the state of the event afterwards
Signal(e) == TRUE

\* Event::Block() can return only when the event is signaled
CanReturnFromBlock(e) == e = TRUE

\* a Block() that does not reset the event
AfterBlockNoReset(e) == e

\* Event::Block(): the state of the event once it has returned
AfterBlock(e) == FALSE

(***************************************************************************)
(* WaveformThread                                                          *)
(***************************************************************************)
ThrInit ==
    /\ pc = "top"
    /\ shuttingDown = FALSE
    /\ g_waveformReadyEvent = FALSE
    /\ g_waveformProcessedEvent = FALSE
    /\ cpc = "idle"
    /\ cycles = 0
    /\ shutdownAt = "none"
    /\ teardownSignal = FALSE
    /\ polls = <<>>
    /\ exact = TRUE
    /\ nSleeps = 0
    /\ nDownloads = 0
    /\ nReady = 0
    /\ nBlocks = 0
    /\ cProcessed = 0

\* the counters of the thread's calls
thrCounts == <<polls, exact, nSleeps, nDownloads, nReady, nBlocks>>

\* a loop that never looks at the shutdown flag
LoopTopIgnoresShutdown ==
    /\ pc = "top"
    /\ pc' = "poll"
    /\ UNCHANGED <<shuttingDown, g_waveformReadyEvent, g_waveformProcessedEvent,
                   cpc, cycles, shutdownAt, teardownSignal, thrCounts, cProcessed>>

\* while(!*shuttingDown)
LoopTop ==
    /\ pc = "top"
    /\ pc' = IF shuttingDown THEN "done" ELSE "poll"
    /\ UNCHANGED <<shuttingDown, g_waveformReadyEvent, g_waveformProcessedEvent,
                   cpc, cycles, shutdownAt, teardownSignal, thrCounts, cProcessed>>

\* the log of poll results: exact until it is full
LogPoll(pending) ==
    IF Len(polls) < MaxPolls
    THEN polls' = Append(polls, pending) /\ UNCHANGED exact
    ELSE exact' = FALSE /\ UNCHANGED polls

\* a poll that also looks at the shutdown flag and leaves the loop
PollChecksShutdown(pending) ==
    /\ pc = "poll"
    /\ LogPoll(pending)
    /\ IF shuttingDown
       THEN /\ pc' = "done"
            /\ UNCHANGED cycles
       ELSE IF pending
            THEN /\ cycles < MaxCycles
                 /\ cycles' = cycles + 1
                 /\ pc' = "download"
            ELSE /\ pc' = "sleep"
                 /\ UNCHANGED cycles
    /\ UNCHANGED <<shuttingDown, g_waveformReadyEvent, g_waveformProcessedEvent,
                   cpc, shutdownAt, teardownSignal,
                   nSleeps, nDownloads, nReady, nBlocks, cProcessed>>

\* if(!session->CheckForPendingWaveforms()): the poll result is an input
Poll(pending) ==
    /\ pc = "poll"
    /\ LogPoll(pending)
    /\ IF pending
       THEN /\ cycles < MaxCycles
            /\ cycles' = cycles + 1
            /\ pc' = "download"
       ELSE /\ pc' = "sleep"
            /\ UNCHANGED cycles
    /\ UNCHANGED <<shuttingDown, g_waveformReadyEvent, g_waveformProcessedEvent,
                   cpc, shutdownAt, teardownSignal,
                   nSleeps, nDownloads, nReady, nBlocks, cProcessed>>

\* a sleep without the continue: falls through to the download
SleepNoContinue ==
    /\ pc = "sleep"
    /\ pc' = "download"
    /\ nSleeps' = IF exact THEN nSleeps + 1 ELSE nSleeps
    /\ UNCHANGED <<shuttingDown, g_waveformReadyEvent, g_waveformProcessedEvent,
                   cpc, cycles, shutdownAt, teardownSignal,
                   polls, exact, nDownloads, nReady, nBlocks, cProcessed>>

\* a sleep followed by break instead of continue
SleepBreaks ==
    /\ pc = "sleep"
    /\ pc' = "done"
    /\ nSleeps' = IF exact THEN nSleeps + 1 ELSE nSleeps
    /\ UNCHANGED <<shuttingDown, g_waveformReadyEvent, g_waveformProcessedEvent,
                   cpc, cycles, shutdownAt, teardownSignal,
                   polls, exact, nDownloads, nReady, nBlocks, cProcessed>>

\* this_thread::sleep_for(1 ms); continue;
Sleep ==
    /\ pc = "sleep"
    /\ pc' = "top"
    /\ nSleeps' = IF exact THEN nSleeps + 1 ELSE nSleeps
    /\ UNCHANGED <<shuttingDown, g_waveformReadyEvent, g_waveformProcessedEvent,
                   cpc, cycles, shutdownAt, teardownSignal,
                   polls, exact, nDownloads, nReady, nBlocks, cProcessed>>

\* session->DownloadWaveforms() returns
DownloadWaveforms ==
    /\ pc = "download"
    /\ pc' = "signal"
    /\ nDownloads' = nDownloads + 1
    /\ UNCHANGED <<shuttingDown, g_waveformReadyEvent, g_waveformProcessedEvent,
                   cpc, cycles, shutdownAt, teardownSignal,
                   polls, exact, nSleeps, nReady, nBlocks, cProcessed>>

\* a thread that signals "ready" and loops without blocking on "processed"
SignalReadyNoBlock ==
    /\ pc = "signal"
    /\ g_waveformReadyEvent' = Signal(g_waveformReadyEvent)
    /\ pc' = "top"
    /\ nReady' = nReady + 1
    /\ UNCHANGED <<shuttingDown, g_waveformProcessedEvent,
                   cpc, cycles, shutdownAt, teardownSignal,
                   polls, exact, nSleeps, nDownloads, nBlocks, cProcessed>>

\* g_waveformReadyEvent.Signal()
SignalReady ==
    /\ pc = "signal"
    /\ g_waveformReadyEvent' = Signal(g_waveformReadyEvent)
    /\ pc' = "block"
    /\ nReady' = nReady + 1
    /\ UNCHANGED <<shuttingDown, g_waveformProcessedEvent,
                   cpc, cycles, shutdownAt, teardownSignal,
                   polls, exact, nSleeps, nDownloads, nBlocks, cProcessed>>

\* a thread that goes on without waiting for "processed"
BlockProcessedNoWait ==
    /\ pc = "block"
    /\ g_waveformProcessedEvent' = AfterBlock(g_waveformProcessedEvent)
    /\ pc' = "top"
    /\ nBlocks' = nBlocks + 1
    /\ UNCHANGED <<shuttingDown, g_waveformReadyEvent,
                   cpc, cycles, shutdownAt, teardownSignal,
                   polls, exact, nSleeps, nDownloads, nReady, cProcessed>>

\* g_waveformProcessedEvent.Block() returns
BlockProcessed ==
    /\ pc = "block"
    /\ CanReturnFromBlock(g_waveformProcessedEvent)
    /\ g_waveformProcessedEvent' = AfterBlock(g_waveformProcessedEvent)
    /\ pc' = "top"
    /\ nBlocks' = nBlocks + 1
    /\ UNCHANGED <<shuttingDown, g_waveformReadyEvent,
                   cpc, cycles, shutdownAt, teardownSignal,
                   polls, exact, nSleeps, nDownloads, nReady, cProcessed>>

(***************************************************************************)
(* The consumer (render / UI context) and application teardown.            *)
(***************************************************************************)
\* the consumer observes "ready" and enters its read window
ConsumerObserveReady ==
    /\ cpc = "idle"
    /\ CanReturnFromBlock(g_waveformReadyEvent)
    /\ g_waveformReadyEvent' = AfterBlock(g_waveformReadyEvent)
    /\ cpc' = "reading"
    /\ UNCHANGED <<pc, shuttingDown, g_waveformProcessedEvent,
                   cycles, shutdownAt, teardownSignal, thrCounts, cProcessed>>

\* the consumer leaves its read window and signals "processed"
ConsumerProcessed ==
    /\ cpc = "reading"
    /\ g_waveformProcessedEvent' = Signal(g_waveformProcessedEvent)
    /\ cpc' = "idle"
    /\ cProcessed' = cProcessed + 1
    /\ UNCHANGED <<pc, shuttingDown, g_waveformReadyEvent,
                   cycles, shutdownAt, teardownSignal, thrCounts>>

\* teardown sets the shutdown flag, once
SetShutdown ==
    /\ ~shuttingDown
    /\ shuttingDown' = TRUE
    /\ shutdownAt' = pc
    /\ UNCHANGED <<pc, g_waveformReadyEvent, g_waveformProcessedEvent,
                   cpc, cycles, teardownSignal, thrCounts, cProcessed>>

\* teardown signals "processed" one last time so that a blocked thread can exit
TeardownProcessed ==
    /\ shuttingDown
    /\ cpc = "idle"
    /\ ~teardownSignal
    /\ teardownSignal' = TRUE
    /\ g_waveformProcessedEvent' = Signal(g_waveformProcessedEvent)
    /\ UNCHANGED <<pc, shuttingDown, g_waveformReadyEvent,
                   cpc, cycles, shutdownAt, thrCounts, cProcessed>>

(***************************************************************************)
(* A stand-alone Event with one signaling and one waiting context.         *)
(***************************************************************************)
EvInit ==
    /\ ev = FALSE
    /\ wpc = "run"
    /\ sigSince = 0
    /\ sigAtCall = 0
    /\ lastBurst = 0
    /\ evSignals = 0
    /\ evBlocks = 0

\* the signaling context calls Signal()
EventSignal ==
    /\ evSignals < MaxSignals
    /\ ev' = Signal(ev)
    /\ sigSince' = sigSince + 1
    /\ evSignals' = evSignals + 1
    /\ UNCHANGED <<wpc, sigAtCall, lastBurst, evBlocks>>

\* the waiting context calls Block()
EventBlockCall ==
    /\ wpc = "run"
    /\ evBlocks < MaxBlocks
    /\ wpc' = "blocked"
    /\ sigAtCall' = sigSince
    /\ evBlocks' = evBlocks + 1
    /\ UNCHANGED <<ev, sigSince, lastBurst, evSignals>>

\* a Block() that leaves the event signaled when more than one Signal() was
\* pending, as a counting semaphore would
EventBlockReturnCounting ==
    /\ wpc = "blocked"
    /\ CanReturnFromBlock(ev)
    /\ ev' = (sigSince >= 2)
    /\ wpc' = "run"
    /\ lastBurst' = sigSince
    /\ sigSince' = 0
    /\ UNCHANGED <<sigAtCall, evSignals, evBlocks>>

\* Block() returns
EventBlockReturn ==
    /\ wpc = "blocked"
    /\ CanReturnFromBlock(ev)
    /\ ev' = AfterBlock(ev)
    /\ wpc' = "run"
    /\ lastBurst' = sigSince
    /\ sigSince' = 0
    /\ UNCHANGED <<sigAtCall, evSignals, evBlocks>>

(***************************************************************************)
(* Specifications.                                                         *)
(***************************************************************************)
Init == RegInit /\ ThrInit /\ EvInit

\* the registry, driven by UI events
Next ==
    \/ \E d \in Descriptors : AddStream(d) /\ UNCHANGED <<thrVars, evVars>>
    \/ \E i \in 0..(MaxStreams - 1) : RemoveStream(i) /\ UNCHANGED <<thrVars, evVars>>
    \/ \E d \in Descriptors, i \in 0..(MaxStreams - 1) :
            MoveStream(d, i) /\ UNCHANGED <<thrVars, evVars>>
    \/ Destructor /\ UNCHANGED <<thrVars, evVars>>

Spec == Init /\ [][Next]_vars

\* the registry with a caller that also passes invalid indexes to RemoveStream
NextOOR ==
    \/ Next
    \/ \E i \in 0..MaxStreams, g \in GarbageChannels, o \in EraseOutcomes :
            RemoveStreamOutOfRange(i, g, o) /\ UNCHANGED <<thrVars, evVars>>

SpecOOR == Init /\ [][NextOOR]_vars

\* a step of the acquisition thread
ThreadStep ==
    \/ LoopTop /\ UNCHANGED <<regVars, evVars>>
    \/ \E pending \in BOOLEAN : Poll(pending) /\ UNCHANGED <<regVars, evVars>>
    \/ Sleep /\ UNCHANGED <<regVars, evVars>>
    \/ DownloadWaveforms /\ UNCHANGED <<regVars, evVars>>
    \/ SignalReady /\ UNCHANGED <<regVars, evVars>>
    \/ BlockProcessed /\ UNCHANGED <<regVars, evVars>>

\* a step of the consumer
ConsumerStep ==
    \/ ConsumerObserveReady /\ UNCHANGED <<regVars, evVars>>
    \/ ConsumerProcessed /\ UNCHANGED <<regVars, evVars>>

\* a step of application teardown
TeardownStep ==
    \/ SetShutdown /\ UNCHANGED <<regVars, evVars>>
    \/ TeardownProcessed /\ UNCHANGED <<regVars, evVars>>

\* the acquisition thread, its consumer and teardown
ThrNext ==
    \/ ThreadStep
    \/ ConsumerStep
    \/ TeardownStep

SpecThread == Init /\ [][ThrNext]_vars

\* the same with a fair scheduler: the thread keeps running, the consumer
\* keeps answering the handshake and teardown sends its last "processed"
SpecThreadFair ==
    /\ SpecThread
    /\ WF_vars(ThreadStep)
    /\ WF_vars(ConsumerStep)
    /\ WF_vars(TeardownProcessed /\ UNCHANGED <<regVars, evVars>>)

\* the stand-alone event
EvNext ==
    \/ EventSignal /\ UNCHANGED <<regVars, thrVars>>
    \/ EventBlockCall /\ UNCHANGED <<regVars, thrVars>>
    \/ EventBlockReturn /\ UNCHANGED <<regVars, thrVars>>

SpecEvent == Init /\ [][EvNext]_vars

(***************************************************************************)
(* Properties.                                                             *)
(***************************************************************************)
\* C1: the thread is never inside DownloadWaveforms while the consumer is in
\* its read window, and no "ready" signal is pending when a download runs: a
\* download starts only once the "processed" answering the previous "ready"
\* has been consumed by Block().
C1_DownloadExcludesRead ==
    pc = "download" => (cpc = "idle" /\ ~g_waveformReadyEvent)

\* a second download is running, after a complete ready / processed handshake
C1_Witness == pc = "download" /\ cycles >= 2 /\ cpc = "idle"

\* C2: m_streams and m_streamset hold exactly the same descriptors and no
\* descriptor is twice in m_streams.
C2_SequenceMatchesSet ==
    alive => /\ Range(m_streams) = m_streamset
             /\ Cardinality(Range(m_streams)) = Len(m_streams)

\* C3: for every reference-countable channel, the references the registry
\* holds on it are as many as its descriptors in m_streams.
C3_OneReferencePerDescriptor ==
    alive => \A c \in OscChannels : refs[c] = CountChannel(m_streams, c)

\* C4: while the registry lives, the references it holds on a
\* reference-countable channel are the AddStream calls for the channel that
\* were not no-ops minus the RemoveStream calls for the channel.
C4_RefsAreAddsMinusRemoves ==
    alive => \A c \in OscChannels : refs[c] = addOps[c] - removeOps[c]

\* a channel was added twice and removed once
C4_Witness ==
    alive /\ \E c \in OscChannels : addOps[c] >= 2 /\ removeOps[c] >= 1

\* C5: when the shutdown flag is set while the thread is blocked on
\* "processed", the thread leaves the block only by consuming a signaled
\* "processed", goes to the top of the loop and from there terminates: it
\* never polls or downloads again.
C5_ShutdownWhileAwaiting ==
    /\ [](shutdownAt = "block" => pc \in {"block", "top", "done"})
    /\ [][(shutdownAt = "block" /\ pc = "block" /\ pc' # "block")
            => (g_waveformProcessedEvent /\ pc' = "top")]_vars
    /\ [][(shutdownAt = "block" /\ pc = "top" /\ pc' # "top")
            => pc' = "done"]_vars

\* the thread has terminated after a shutdown that found it blocked
C5_Witness == shutdownAt = "block" /\ pc = "done"

\* C6: RemoveStream on a valid index releases one reference on the channel of
\* the descriptor at that index, erases that descriptor from m_streamset and
\* removes it from m_streams at the index.
C6_RemoveErasesDescriptor ==
    (last.op = "Remove" /\ last.pos < Len(last.streams)) =>
        /\ refs = Drop(last.refs, DynCastOsc(last.d.m_channel))
        /\ m_streamset = last.set \ {last.d}
        /\ m_streams = EraseAt(last.streams, last.pos)

\* C7: a move of a descriptor that is not in the registry leaves it in
\* m_streams at the destination and in m_streamset, with one reference
\* acquired on its channel.
C7_MoveAbsentActsAsAdd ==
    (last.op = "Move" /\ ~last.present) =>
        /\ m_streams[last.pos + 1] = last.d
        /\ last.d \in m_streamset
        /\ refs = Bump(last.refs, DynCastOsc(last.d.m_channel))

\* C8: the registry never issues more Release calls on a channel than it
\* issued AddRef calls on it.
C8_NoUnderflow ==
    \A c \in Channels : releaseCalls[c] <= addRefCalls[c]

\* C9: RemoveStream on an index that is not valid returns an out-of-range
\* error and leaves m_streams, m_streamset and the reference counts as they
\* were.
C9_RemoveOutOfRangeRejected ==
    (last.op = "Remove" /\ last.pos >= Len(last.streams)) =>
        /\ last.result = "out_of_range"
        /\ alive
        /\ m_streams = last.streams
        /\ m_streamset = last.set
        /\ refs = last.refs

Least(S) == CHOOSE i \in S : \A j \in S : i <= j

\* C11: a move of a descriptor that is in m_streams is a pure reordering: the
\* descriptor sits at the destination index, the other entries keep their
\* relative order, the descriptors held are the same and no reference count
\* changes.
C11_MovePresentReorders ==
    (last.op = "Move" /\ last.present) =>
        /\ Len(m_streams) = Len(last.streams)
        /\ m_streams[last.pos + 1] = last.d
        /\ EraseAt(m_streams, last.pos)
             = EraseAt(last.streams, Least(IndexesOf(last.streams, last.d)))
        /\ Range(m_streams) = Range(last.streams)
        /\ m_streamset = last.set \cup {last.d}
        /\ refs = last.refs

\* [A, B, C] with the last entry moved to index 0
C11_Witness ==
    /\ last.op = "Move" /\ last.present
    /\ Len(last.streams) = 3
    /\ Cardinality(Range(last.streams)) = 3
    /\ last.streams[3] = last.d
    /\ last.pos = 0
    /\ m_streams = <<last.streams[3], last.streams[1], last.streams[2]>>

\* C12: the destructor releases every reference the registry holds exactly
\* once: afterwards the registry holds no reference on any channel and has
\* released none it did not hold.
C12_TeardownReleasesAll ==
    last.op = "Teardown" =>
        \A c \in Channels : refs[c] = 0 /\ releaseCalls[c] <= addRefCalls[c]

\* C20: after AddStream(d) and RemoveStream of d's position, HasStream(d) is
\* false, so that a following AddStream(d) is not a no-op.
C20_AddAfterRemove ==
    (last.op = "Remove" /\ last.pos < Len(last.streams)
        /\ last.before.op = "Add" /\ last.before.d = last.d) =>
            ~HasStream(last.d)

\* number of entries of the sequence of booleans q equal to b
NumOf(q, b) == Cardinality({i \in 1..Len(q) : q[i] = b})

\* 1 when the thread is at one of the positions in S, else 0
At(S) == IF pc \in S THEN 1 ELSE 0

\* C13: the thread sleeps once per false poll; for each true poll it calls
\* DownloadWaveforms once, then signals "ready" once, then blocks on
\* "processed"; it never downloads or signals without a true poll.
C13_OnePerPoll ==
    exact =>
        /\ cycles = NumOf(polls, TRUE)
        /\ nSleeps = NumOf(polls, FALSE) - At({"sleep"})
        /\ nDownloads = NumOf(polls, TRUE) - At({"download"})
        /\ nReady = NumOf(polls, TRUE) - At({"download", "signal"})
        /\ nBlocks = NumOf(polls, TRUE) - At({"download", "signal", "block"})

\* polls false, false, false, true: three sleeps, one download, one "ready",
\* and the thread blocked on "processed"
C13_Witness ==
    /\ polls = <<FALSE, FALSE, FALSE, TRUE>>
    /\ exact
    /\ nSleeps = 3 /\ nDownloads = 1 /\ nReady = 1 /\ nBlocks = 0
    /\ pc = "block"

\* C14: a Block() issued after a Signal() with no Block() in between can
\* return at once and leaves the event idle; a Block() issued on an idle event
\* cannot return before a Signal().
C14_SignalThenBlock ==
    /\ []((wpc = "blocked" /\ sigAtCall >= 1) => CanReturnFromBlock(ev))
    /\ []((wpc = "blocked" /\ sigSince = 0) => ~CanReturnFromBlock(ev))
    /\ [][(wpc = "blocked" /\ wpc' = "run")
            => (sigSince >= 1 /\ ~CanReturnFromBlock(ev'))]_vars

\* two Block() calls have returned, the second issued on an idle event and
\* woken by one Signal()
C14_Witness ==
    /\ wpc = "run" /\ evBlocks = 2
    /\ sigAtCall = 0 /\ lastBurst = 1
    /\ evSignals = 2 /\ sigSince = 0

\* C15: signals are coalesced: with two or more Signal() calls and no Block()
\* in between, one Block() can return at once, and after it the event is idle
\* so that the next Block() waits for a new Signal().
C15_SignalsCoalesce ==
    /\ sigSince >= 2 => CanReturnFromBlock(ev)
    /\ (lastBurst >= 2 /\ sigSince = 0) => ~CanReturnFromBlock(ev)

\* a Block() consumed two signals and the next Block() is waiting
C15_Witness ==
    /\ lastBurst >= 2 /\ sigSince = 0
    /\ wpc = "blocked" /\ evBlocks = 2
    /\ ~CanReturnFromBlock(ev)

\* C16: the shutdown flag is looked at only at the top of the loop: the thread
\* terminates only from there, with the flag set it still goes from the poll
\* through DownloadWaveforms, Signal and Block in order, and a flag set during
\* the retry sleep ends the thread without another poll.
C16_ShutdownSampledAtTop ==
    /\ [](shutdownAt = "sleep" => pc \in {"sleep", "top", "done"})
    /\ []((shutdownAt \in {"poll", "download", "signal"} /\ pc = "done")
            => (nDownloads = cycles /\ nReady = cycles /\ nBlocks = cycles))
    /\ [][pc' = "done" => pc \in {"top", "done"}]_vars
    /\ [][(shuttingDown /\ pc = "poll" /\ pc' # pc)
            => pc' \in {"download", "sleep"}]_vars
    /\ [][(shuttingDown /\ pc = "download" /\ pc' # pc) => pc' = "signal"]_vars
    /\ [][(shuttingDown /\ pc = "signal" /\ pc' # pc)
            => (pc' = "block" /\ g_waveformReadyEvent')]_vars
    /\ [][(shuttingDown /\ pc = "block" /\ pc' # pc)
            => (g_waveformProcessedEvent /\ pc' = "top")]_vars

\* the flag was set before the only poll, which returned true: the thread has
\* downloaded, signaled, blocked and then terminated
C16_Witness ==
    /\ shutdownAt = "poll" /\ polls = <<TRUE>> /\ exact
    /\ pc = "done"
    /\ nDownloads = 1 /\ nReady = 1 /\ nBlocks = 1

\* C17: with a fair scheduler and a consumer that keeps answering, the thread
\* terminates once the shutdown flag is set; as long as "processed" is not
\* signaled, a thread blocked on it stays blocked.
C17_TerminatesAfterShutdown ==
    /\ shuttingDown ~> (pc = "done")
    /\ [][(pc = "block" /\ ~g_waveformProcessedEvent) => pc' = "block"]_vars

\* the flag was set during a download and the thread has terminated, after
\* teardown's last "processed"
C17_Witness ==
    shutdownAt = "download" /\ teardownSignal /\ pc = "done"

\* C18: while the shutdown flag is not set a false poll does not end the
\* loop (the thread sleeps, returns to the top and polls again), and once a
\* poll has returned true the thread gets to signal "ready".
C18_PollRetriesAndReady ==
    /\ [](pc = "done" => shuttingDown)
    /\ [][(pc = "sleep" /\ pc' # pc) => pc' = "top"]_vars
    /\ [][(pc = "top" /\ ~shuttingDown /\ pc' # pc) => pc' = "poll"]_vars
    /\ (pc = "sleep") ~> (pc = "poll" \/ shuttingDown)
    /\ (pc = "download") ~> (pc = "block")

\* a false poll, then a true one, and "ready" has been signaled
C18_Witness ==
    /\ polls = <<FALSE, TRUE>> /\ exact
    /\ ~shuttingDown
    /\ pc = "block" /\ nReady = 1 /\ nSleeps = 1

\* C19: "ready" and the consumer's "processed" alternate, "ready" first: when
\* the thread is about to signal "ready" every earlier "ready" has been
\* answered, the consumer is outside its read window and no "ready" is
\* pending, so that no "ready" is coalesced with another.
C19_ReadyProcessedAlternate ==
    /\ cProcessed <= nReady
    /\ nReady <= cProcessed + 1
    /\ pc = "signal" =>
            /\ nReady = cProcessed
            /\ ~g_waveformReadyEvent
            /\ cpc = "idle"

\* the second "ready" has been signaled, after the first was answered
C19_Witness ==
    nReady = 2 /\ cProcessed = 1 /\ pc = "block" /\ g_waveformReadyEvent

\* C21: RemoveStream on a valid index touches only the descriptor at the
\* index: the other entries of m_streams stay, in the same order, every other
\* descriptor stays in m_streamset, and the reference counts of the other
\* channels do not change.
C21_RemoveTouchesOnlyOne ==
    (last.op = "Remove" /\ last.pos < Len(last.streams)) =>
        /\ m_streams = EraseAt(last.streams, last.pos)
        /\ \A e \in last.set : e # last.d => e \in m_streamset
        /\ \A c \in Channels : c # last.d.m_channel => refs[c] = last.refs[c]

\* m_streams as the move handler has it after removing the old entry
AfterRemoval(r) ==
    IF IndexesOf(r.streams, r.d) = {} THEN r.streams
    ELSE EraseAt(r.streams, Least(IndexesOf(r.streams, r.d)))

\* C22: the index at which the move handler inserts lies between 0 and the
\* length m_streams has once the old entry is removed, whether the descriptor
\* was in m_streams or not, and the descriptor ends up at that index.
C22_MoveInsertsInRange ==
    last.op = "Move" =>
        /\ 0 <= last.pos
        /\ last.pos <= Len(AfterRemoval(last))
        /\ Len(m_streams) = Len(AfterRemoval(last)) + 1
        /\ m_streams[last.pos + 1] = last.d

\* a descriptor of the registry dropped on the last row: the insert index
\* equals the length left after the removal
C22_Witness ==
    /\ last.op = "Move" /\ last.present
    /\ Len(last.streams) >= 2
    /\ last.pos = Len(last.streams) - 1
    /\ last.pos = Len(AfterRemoval(last))
    /\ m_streams[Len(m_streams)] = last.d

====
